---------------------------- MODULE Spec2Model ----------------------------
(***************************************************************************)
(* Dining philosophers of src/philosophers.cpp: the forks (Fork), the      *)
(* philosopher threads (Philosopher), the event queue and its drain loop   *)
(* (Monitor), the waterfall renderer (Waterfall_monitor) and the           *)
(* orchestrator (Canteen).                                                 *)
(*                                                                         *)
(* Atomicity.  Every Fork method runs under the fork's m_mutex, so a call  *)
(* is one step, except wait_until_available, which is two: the part before *)
(* wait_for and the part after it (wait_for releases the mutex).           *)
(* Philosopher::state writes m_state (read by the own thread only) and     *)
(* appends under m_log_queue_mutex: one step.  Time is abstracted: a       *)
(* sleep_for is no step of its own, and a wait_for may time out whenever   *)
(* its thread is still waiting.                                            *)
(***************************************************************************)
EXTENDS Integers, Sequences, FiniteSets, TLC

\* Largest argument handed to the Canteen constructor.
MaxN == 3
\* Largest number of events that m_log_queue holds in the model.
MaxQueue == 2

VARIABLES
    phase,           \* where the orchestrator is: "start", "config_error", "constructed", "running", "terminated"
    n,               \* Canteen::m_philosophers.size()
    number,          \* the argument _number_of_philosophers of the constructor call, as <<k>>; <<>> before it
    starvation,      \* whether the build defines PHILOSOPHERS_STARVATION
    started,         \* number of threads Canteen::operator() has created
    m_is_available,  \* Fork::m_is_available, per fork id
    pc,              \* position of each philosopher thread
    m_state,         \* Philosopher::m_state
    holds,           \* the forks each philosopher has claimed and not freed, as sides "left"/"right"
    m_log_queue,     \* Monitor::m_log_queue
    work_log,        \* local work_log of Monitor::monitor_worker
    mon_pc,          \* position of the thread inside Monitor::monitor_worker
    m_buffer,        \* Waterfall_monitor::m_buffer
    cout,            \* the last snapshot line written to std::cout, NoLine before the first
    observed,        \* per philosopher, the last of its events handed to events_logger
    undelivered,     \* the events appended by log_state and not yet handed to events_logger
    faults,          \* how many times monitor_worker has thrown "No events for a long time"
    cerr,            \* the what() texts written to std::cerr by the catch blocks
    exit_status      \* how the process has ended, "none" while it runs

vars == <<phase, n, number, starvation, started, m_is_available, pc, m_state, holds,
          m_log_queue, work_log, mon_pc, m_buffer, cout, observed, undelivered, faults,
          cerr, exit_status>>

ringVars == <<m_is_available, holds>>
monVars == <<work_log, m_buffer, cout, observed, faults, cerr, exit_status>>

\* The what() texts of the three exceptions of the program.
InvalidNumberText == "Invalid number of philosophers (<2)"
NoEventsText == "No events for a long time"
UnexpectedExitText == "Unexpected exit"

\* The line that the handler of Philosopher::operator() writes to std::cerr.
CatchUnhandledText(p) == "Catch unhandled exception in philosopher id=" \o ToString(p)

\* The line that Canteen::operator() of part_001 writes to std::cerr.
QueueSizeText(size) == "queue_size = " \o ToString(size)

Phils == 0 .. n - 1
Forks == 0 .. n - 1

NoLine == <<"no line">>

-----------------------------------------------------------------------------
\* Canteen::Canteen wiring: philosopher i gets forks[i] and forks[(i + 1) % n].
LeftFork(p) == p

\* A right fork that is not wrapped around the table.
RightForkUnwrapped(p) == p + 1

RightFork(p) == (p + 1) % n

ForkOf(p, side) == IF side = "left" THEN LeftFork(p) ELSE RightFork(p)

\* The forks philosopher p holds, as fork ids.
HeldForks(p) == {ForkOf(p, s) : s \in holds[p]}

\* The philosophers that hold fork f.
Holders(f) == {p \in Phils : f \in HeldForks(p)}

-----------------------------------------------------------------------------
\* Waterfall_monitor::symb.
symb(s) ==
    CASE s = "thinks" -> " "
      [] s = "hungry" -> "."
      [] s = "dines"  -> "|"
      [] s = "dead" /\ starvation -> "#"
      [] OTHER -> "?"

\* std::string::append(count, ch).
RECURSIVE Fill(_, _)
Fill(count, ch) == IF count <= 0 THEN <<>> ELSE <<ch>> \o Fill(count - 1, ch)

\* A log_event that appends el.first + 1 symbols whatever the buffer holds.
log_event_overgrown(buf, el) ==
    LET grown == IF Len(buf) <= el[1]
                 THEN buf \o Fill(el[1] + 1, symb("thinks"))
                 ELSE buf
    IN [grown EXCEPT ![el[1] + 1] = symb(el[2])]

\* The lambda log_event of Waterfall_monitor::events_logger: string positions are
\* 0-based in the code and 1-based here.
log_event(buf, el) ==
    LET grown == IF Len(buf) <= el[1]
                 THEN buf \o Fill(el[1] + 1 - Len(buf), symb("thinks"))
                 ELSE buf
    IN [grown EXCEPT ![el[1] + 1] = symb(el[2])]

\* A traversal of the batch from its last event to its first.
RECURSIVE for_each_backwards(_, _)
for_each_backwards(buf, log) ==
    IF log = <<>> THEN buf
    ELSE for_each_backwards(log_event(buf, log[Len(log)]), SubSeq(log, 1, Len(log) - 1))

\* std::for_each(begin(work_log), end(work_log), log_event).
RECURSIVE for_each(_, _)
for_each(buf, log) ==
    IF log = <<>> THEN buf ELSE for_each(log_event(buf, Head(log)), Tail(log))


-----------------------------------------------------------------------------
\* Philosopher::States, with dead only in a PHILOSOPHERS_STARVATION build.
States == {"thinks", "hungry", "dines", "dead"}

TypeOK ==
    /\ phase \in {"start", "config_error", "constructed", "running", "terminated"}
    /\ n \in 0 .. MaxN
    /\ number \in {<<>>} \cup {<<k>> : k \in 0 .. MaxN}
    /\ starvation \in BOOLEAN
    /\ started \in 0 .. n
    /\ m_is_available \in [Forks -> BOOLEAN]
    /\ m_state \in [Phils -> States]
    /\ holds \in [Phils -> SUBSET {"left", "right"}]
    /\ Len(m_log_queue) <= MaxQueue
    /\ faults \in Nat
    /\ cerr \subseteq {InvalidNumberText, NoEventsText, UnexpectedExitText}
                     \cup {CatchUnhandledText(p) : p \in Phils}
                     \cup {QueueSizeText(size) : size \in 0 .. MaxQueue}
    /\ exit_status \in {"none", "EXIT_FAILURE", "SIGABRT", "0"}

\* main before Canteen is constructed: nothing exists yet.
Init ==
    /\ phase = "start"
    /\ n = 0
    /\ number = <<>>
    /\ starvation \in BOOLEAN
    /\ started = 0
    /\ m_is_available = <<>>
    /\ pc = <<>>
    /\ m_state = <<>>
    /\ holds = <<>>
    /\ m_log_queue = <<>>
    /\ work_log = <<>>
    /\ mon_pc = "off"
    /\ m_buffer = <<>>
    /\ cout = NoLine
    /\ observed = <<>>
    /\ undelivered = <<>>
    /\ faults = 0
    /\ cerr = {}
    /\ exit_status = "none"

-----------------------------------------------------------------------------
\* Canteen

\* A test that lets a single philosopher through.
InvalidNumberBelowOne(k) == k < 1

\* The constructor's test of its argument.
InvalidNumber(k) == k < 2

\* Canteen::Canteen(_monitor, k): throws std::invalid_argument, or builds k
\* forks (available) and k philosophers (thinks), none of them running.  The
\* exception leaves the constructor for the handler of its caller, main, which
\* writes what() to std::cerr and returns EXIT_FAILURE.
Canteen(k) ==
    /\ phase = "start"
    /\ number' = <<k>>
    /\ IF InvalidNumber(k)
       THEN /\ phase' = "config_error"
            /\ cerr' = cerr \cup {InvalidNumberText}
            /\ exit_status' = "EXIT_FAILURE"
            /\ UNCHANGED <<n, m_is_available, pc, m_state, holds, observed>>
       ELSE /\ phase' = "constructed"
            /\ UNCHANGED <<cerr, exit_status>>
            /\ n' = k
            /\ m_is_available' = [f \in 0 .. k - 1 |-> TRUE]
            /\ pc' = [p \in 0 .. k - 1 |-> "off"]
            /\ m_state' = [p \in 0 .. k - 1 |-> "thinks"]
            /\ holds' = [p \in 0 .. k - 1 |-> {}]
            /\ observed' = [p \in 0 .. k - 1 |-> "none"]
    /\ UNCHANGED <<starvation, started, m_log_queue, work_log, mon_pc, m_buffer,
                   cout, undelivered, faults>>

\* Canteen::operator() is entered.
CanteenRun ==
    /\ phase = "constructed"
    /\ phase' = "running"
    /\ UNCHANGED <<n, number, starvation, started, m_is_available, pc, m_state, holds,
                   m_log_queue, work_log, mon_pc, m_buffer, cout, observed,
                   undelivered, faults, cerr, exit_status>>

\* One std::thread(Philosopher::worker, ptr) of the std::transform: the
\* threads are created in the order of m_philosophers.
thread_creator ==
    /\ phase = "running"
    /\ started < n
    /\ pc[started] = "off"
    /\ pc' = [pc EXCEPT ![started] = "thinking"]
    /\ started' = started + 1
    /\ UNCHANGED <<phase, n, number, starvation, m_is_available, m_state, holds,
                   m_log_queue, work_log, mon_pc, m_buffer, cout, observed,
                   undelivered, faults, cerr, exit_status>>

\* The exception of monitor_worker leaves the try block of Canteen::operator():
\* the local vector of joinable std::thread objects is destroyed on the way
\* to the handlers, and the destructor of a joinable std::thread calls
\* std::terminate.  The process is aborted there, with every philosopher
\* thread: neither handler of Canteen::operator() writes what() to std::cerr,
\* the std::logic_error after them is not thrown and main's handler and its
\* return EXIT_FAILURE are not reached.
CanteenUnwind ==
    /\ phase = "running"
    /\ mon_pc = "faulted"
    /\ phase' = "terminated"
    /\ exit_status' = "SIGABRT"
    /\ UNCHANGED <<n, number, starvation, started, m_is_available, pc, m_state, holds,
                   m_log_queue, work_log, mon_pc, m_buffer, cout, observed,
                   undelivered, faults, cerr>>

-----------------------------------------------------------------------------
\* Fork

\* A test that finds every fork available.
IsAvailableAlways(f) == TRUE

\* The test `if (this->m_is_available)` of try_to_get and wait_until_available.
IsAvailable(f) == m_is_available[f]

\* The philosophers inside wait_for of fork f's condition variable.
Waiters(f) ==
    {q \in Phils : \/ pc[q] = "blocked_left" /\ LeftFork(q) = f
                   \/ pc[q] = "blocked_right" /\ RightFork(q) = f}

\* Where a waiter is once notify_one has woken it: out of wait_for, before it
\* tests the flag again.
Woken(q) == IF pc[q] = "blocked_left" THEN "woken_left" ELSE "woken_right"

\* The test-and-set shared by Fork::try_to_get (lines 38-43) and
\* A test that toggles the flag: a held fork is marked available and the call
\* returns false.
claim_toggles(p, side, got, failed) ==
    LET f == ForkOf(p, side) IN
    IF IsAvailable(f)
    THEN /\ m_is_available' = [m_is_available EXCEPT ![f] = FALSE]
         /\ holds' = [holds EXCEPT ![p] = @ \cup {side}]
         /\ pc' = [pc EXCEPT ![p] = got]
    ELSE /\ m_is_available' = [m_is_available EXCEPT ![f] = TRUE]
         /\ pc' = [pc EXCEPT ![p] = failed]
         /\ UNCHANGED holds

\* Fork::wait_until_available (lines 51-54 and 59-64), run by philosopher p on
\* its fork of that side under the fork's mutex: an available fork is marked
\* held and p goes to `got`; otherwise nothing changes but p's position.
claim(p, side, got, failed) ==
    LET f == ForkOf(p, side) IN
    IF IsAvailable(f)
    THEN /\ m_is_available' = [m_is_available EXCEPT ![f] = FALSE]
         /\ holds' = [holds EXCEPT ![p] = @ \cup {side}]
         /\ pc' = [pc EXCEPT ![p] = got]
    ELSE /\ pc' = [pc EXCEPT ![p] = failed]
         /\ UNCHANGED <<m_is_available, holds>>

\* A free that notifies but leaves the flag as it is.
free_keeps_flag(p, side, next) ==
    LET f == ForkOf(p, side) IN
    /\ UNCHANGED m_is_available
    /\ holds' = [holds EXCEPT ![p] = @ \ {side}]
    /\ IF Waiters(f) = {}
       THEN pc' = [pc EXCEPT ![p] = next]
       ELSE \E w \in Waiters(f) : pc' = [pc EXCEPT ![p] = next, ![w] = Woken(w)]

\* Fork::free by philosopher p: the flag is set and notify_one wakes one of the
\* threads waiting on the fork, if there is any.
free(p, side, next) ==
    LET f == ForkOf(p, side) IN
    /\ m_is_available' = [m_is_available EXCEPT ![f] = TRUE]
    /\ holds' = [holds EXCEPT ![p] = @ \ {side}]
    /\ IF Waiters(f) = {}
       THEN pc' = [pc EXCEPT ![p] = next]
       ELSE \E w \in Waiters(f) : pc' = [pc EXCEPT ![p] = next, ![w] = Woken(w)]

-----------------------------------------------------------------------------
\* Philosopher

\* A philosopher thread runs while the process does.
Running(p) == phase = "running" /\ p \in Phils

\* An insertion at the front of the queue.
emplace_front(queue, el) == <<el>> \o queue

\* m_log_queue.emplace_back(id, state).
emplace_back(queue, el) == Append(queue, el)

\* A log_state that waits for m_log_queue_mutex while the monitor renders: the
\* lock of the swap kept over events_logger.
state_after_render(p, s) ==
    /\ mon_pc # "render"
    /\ Len(m_log_queue) < MaxQueue
    /\ m_state' = [m_state EXCEPT ![p] = s]
    /\ m_log_queue' = emplace_back(m_log_queue, <<p, s>>)
    /\ undelivered' = Append(undelivered, <<p, s>>)
    /\ mon_pc' = IF mon_pc = "waiting" THEN "check" ELSE mon_pc

\* Philosopher::state(_state) with Monitor::log_state: m_state is written, the
\* event (id, m_state) is appended under m_log_queue_mutex, and notify_one
\* wakes the monitor if it is inside wait_for.  The guard bounds the queue.
state(p, s) ==
    /\ Len(m_log_queue) < MaxQueue
    /\ m_state' = [m_state EXCEPT ![p] = s]
    /\ m_log_queue' = emplace_back(m_log_queue, <<p, s>>)
    /\ undelivered' = Append(undelivered, <<p, s>>)
    /\ mon_pc' = IF mon_pc = "waiting" THEN "check" ELSE mon_pc

\* Philosopher::thinking: state(thinks), then the sleep.
thinking(p) ==
    /\ Running(p)
    /\ pc[p] = "thinking"
    /\ state(p, "thinks")
    /\ pc' = [pc EXCEPT ![p] = "aquire"]
    /\ UNCHANGED <<phase, n, number, starvation, started, ringVars, monVars>>

\* An aquire_forks that does not announce the hungry state.
aquire_forks_silent(p) ==
    /\ Running(p)
    /\ pc[p] = "aquire"
    /\ pc' = [pc EXCEPT ![p] = "wait_left"]
    /\ UNCHANGED <<phase, n, number, starvation, started, ringVars, monVars,
                   m_state, m_log_queue, undelivered, mon_pc>>

\* Philosopher::aquire_forks, its first statement: state(hungry).
aquire_forks(p) ==
    /\ Running(p)
    /\ pc[p] = "aquire"
    /\ state(p, "hungry")
    /\ pc' = [pc EXCEPT ![p] = "wait_left"]
    /\ UNCHANGED <<phase, n, number, starvation, started, ringVars, monVars>>

\* A check_for_death that returns to the loop after state(dead).
check_for_death_returns(p, again) ==
    \/ /\ pc' = [pc EXCEPT ![p] = again]
       /\ UNCHANGED <<m_state, m_log_queue, undelivered, mon_pc>>
    \/ /\ starvation
       /\ state(p, "dead")
       /\ pc' = [pc EXCEPT ![p] = again]

\* Philosopher::check_for_death after a wait that returned false.  The time
\* since the last meal is not modelled: in a PHILOSOPHERS_STARVATION build the
\* threshold may or may not have passed.  The dead thread sleeps for ever.
check_for_death(p, again) ==
    \/ /\ pc' = [pc EXCEPT ![p] = again]
       /\ UNCHANGED <<m_state, m_log_queue, undelivered, mon_pc>>
    \/ /\ starvation
       /\ state(p, "dead")
       /\ pc' = [pc EXCEPT ![p] = "dead"]

\* A wait_until_available that enters wait_for without testing the flag.
wait_until_available_untested(p) ==
    /\ Running(p)
    /\ \/ /\ pc[p] = "wait_left"
          /\ pc' = [pc EXCEPT ![p] = "blocked_left"]
       \/ /\ pc[p] = "wait_right"
          /\ pc' = [pc EXCEPT ![p] = "blocked_right"]
    /\ UNCHANGED <<phase, n, number, starvation, started, ringVars, m_state, m_log_queue,
                   undelivered, mon_pc, monVars>>

\* Fork::wait_until_available up to wait_for, in the loops at the left fork
\* (line 165) and at the right fork (line 175): an available fork is taken,
\* otherwise the thread blocks in wait_for.
wait_until_available(p) ==
    /\ Running(p)
    /\ \/ /\ pc[p] = "wait_left"
          /\ claim(p, "left", "try_right", "blocked_left")
       \/ /\ pc[p] = "wait_right"
          /\ claim(p, "right", "try_left", "blocked_right")
    /\ UNCHANGED <<phase, n, number, starvation, started, m_state, m_log_queue,
                   undelivered, mon_pc, monVars>>

\* wait_for returns: by notify_one (woken), by the timeout or spuriously
\* (blocked).  The flag is tested again; when the fork is still held,
\* wait_until_available returns false and the loop calls check_for_death.
wait_for_returns(p) ==
    /\ Running(p)
    /\ \/ /\ pc[p] \in {"blocked_left", "woken_left"}
          /\ IF IsAvailable(LeftFork(p))
             THEN /\ claim(p, "left", "try_right", "wait_left")
                  /\ UNCHANGED <<m_state, m_log_queue, undelivered, mon_pc>>
             ELSE /\ check_for_death(p, "wait_left")
                  /\ UNCHANGED ringVars
       \/ /\ pc[p] \in {"blocked_right", "woken_right"}
          /\ IF IsAvailable(RightFork(p))
             THEN /\ claim(p, "right", "try_left", "wait_right")
                  /\ UNCHANGED <<m_state, m_log_queue, undelivered, mon_pc>>
             ELSE /\ check_for_death(p, "wait_right")
                  /\ UNCHANGED ringVars
    /\ UNCHANGED <<phase, n, number, starvation, started, monVars>>

\* A try_to_get whose result is ignored: the loop is left with or without the
\* other fork.
try_to_get_unchecked(p) ==
    /\ Running(p)
    /\ \/ /\ pc[p] = "try_right"
          /\ claim(p, "right", "eating", "eating")
       \/ /\ pc[p] = "try_left"
          /\ claim(p, "left", "eating", "eating")
    /\ UNCHANGED <<phase, n, number, starvation, started, m_state, m_log_queue,
                   undelivered, mon_pc, monVars>>

\* A blocking acquisition of the other fork: when it is held, the philosopher
\* keeps its own fork and waits for the other one.
try_to_get_hold_and_wait(p) ==
    /\ Running(p)
    /\ \/ /\ pc[p] = "try_right"
          /\ claim(p, "right", "eating", "blocked_right")
       \/ /\ pc[p] = "try_left"
          /\ claim(p, "left", "eating", "blocked_left")
    /\ UNCHANGED <<phase, n, number, starvation, started, m_state, m_log_queue,
                   undelivered, mon_pc, monVars>>

\* A try_to_get followed by the death check: after a failed try the philosopher
\* may die with its first fork in hand.
try_to_get_or_die(p) ==
    /\ Running(p)
    /\ \/ /\ pc[p] = "try_right"
          /\ claim(p, "right", "eating", "free_left")
          /\ UNCHANGED <<m_state, m_log_queue, undelivered, mon_pc>>
       \/ /\ pc[p] = "try_left"
          /\ claim(p, "left", "eating", "free_right")
          /\ UNCHANGED <<m_state, m_log_queue, undelivered, mon_pc>>
       \/ /\ pc[p] \in {"try_right", "try_left"}
          /\ starvation
          /\ state(p, "dead")
          /\ pc' = [pc EXCEPT ![p] = "dead"]
          /\ UNCHANGED ringVars
    /\ UNCHANGED <<phase, n, number, starvation, started, monVars>>

\* The non-blocking try_to_get on the other fork (lines 169 and 179): with it
\* the philosopher holds both and leaves aquire_forks.
try_to_get(p) ==
    /\ Running(p)
    /\ \/ /\ pc[p] = "try_right"
          /\ claim(p, "right", "eating", "free_left")
       \/ /\ pc[p] = "try_left"
          /\ claim(p, "left", "eating", "free_right")
    /\ UNCHANGED <<phase, n, number, starvation, started, m_state, m_log_queue,
                   undelivered, mon_pc, monVars>>

\* A back-off that keeps the fork: the philosopher goes to wait for the other
\* fork with the first one in hand.
back_off_keeps(p) ==
    /\ Running(p)
    /\ \/ /\ pc[p] = "free_left"
          /\ pc' = [pc EXCEPT ![p] = "wait_right"]
       \/ /\ pc[p] = "free_right"
          /\ pc' = [pc EXCEPT ![p] = "wait_left"]
    /\ UNCHANGED <<phase, n, number, starvation, started, ringVars, m_state, m_log_queue,
                   undelivered, mon_pc, monVars>>

\* The back-off after a failed try_to_get: the fork held is freed (lines 173
\* and 183) and the philosopher goes to wait for the other one.
back_off(p) ==
    /\ Running(p)
    /\ \/ /\ pc[p] = "free_left"
          /\ free(p, "left", "wait_right")
       \/ /\ pc[p] = "free_right"
          /\ free(p, "right", "wait_left")
    /\ UNCHANGED <<phase, n, number, starvation, started, m_state, m_log_queue,
                   undelivered, mon_pc, monVars>>

\* Philosopher::eating: state(dines), then the sleep.
eating(p) ==
    /\ Running(p)
    /\ pc[p] = "eating"
    /\ state(p, "dines")
    /\ pc' = [pc EXCEPT ![p] = "eaten"]
    /\ UNCHANGED <<phase, n, number, starvation, started, ringVars, monVars>>

\* An end of eating that calls free() on the right fork twice.
eating_free_right_twice(p) ==
    /\ Running(p)
    /\ \/ /\ pc[p] = "eaten"
          /\ free(p, "right", "eaten_right")
       \/ /\ pc[p] = "eaten_right"
          /\ free(p, "right", "thinking")
    /\ UNCHANGED <<phase, n, number, starvation, started, m_state, m_log_queue,
                   undelivered, mon_pc, monVars>>

\* An end of eating that frees the right fork only.
eating_free_right_only(p) ==
    /\ Running(p)
    /\ pc[p] = "eaten"
    /\ free(p, "right", "thinking")
    /\ UNCHANGED <<phase, n, number, starvation, started, m_state, m_log_queue,
                   undelivered, mon_pc, monVars>>

\* Philosopher::eating after the sleep: m_p_right_fork->free(), then
\* m_p_left_fork->free(), and the loop of operator() starts over.
eating_free(p) ==
    /\ Running(p)
    /\ \/ /\ pc[p] = "eaten"
          /\ free(p, "right", "eaten_right")
       \/ /\ pc[p] = "eaten_right"
          /\ free(p, "left", "thinking")
    /\ UNCHANGED <<phase, n, number, starvation, started, m_state, m_log_queue,
                   undelivered, mon_pc, monVars>>

\* A handler inside the loop: the line is written and the cycle starts again.
catch_and_restart(p) ==
    /\ Running(p)
    /\ pc[p] \notin {"off", "dead", "exited"}
    /\ pc' = [pc EXCEPT ![p] = "thinking"]
    /\ cerr' = cerr \cup {CatchUnhandledText(p)}
    /\ UNCHANGED <<phase, n, number, starvation, started, m_is_available, m_state, holds,
                   m_log_queue, work_log, mon_pc, m_buffer, cout, observed,
                   undelivered, faults, exit_status>>

\* A call made inside the cycle throws (std::bad_alloc of emplace_back,
\* std::system_error of a mutex, ...).  The try block of Philosopher::operator()
\* encloses the for (;;) loop, so the exception leaves the loop for the
\* handler, which writes one line to std::cerr; then operator() returns and the
\* thread ends.  Nothing is released on the way: the forks have no owner object
\* that would free them, and m_state keeps its last value.
catch_unhandled(p) ==
    /\ Running(p)
    /\ pc[p] \notin {"off", "dead", "exited"}
    /\ pc' = [pc EXCEPT ![p] = "exited"]
    /\ cerr' = cerr \cup {CatchUnhandledText(p)}
    /\ UNCHANGED <<phase, n, number, starvation, started, m_is_available, m_state, holds,
                   m_log_queue, work_log, mon_pc, m_buffer, cout, observed,
                   undelivered, faults, exit_status>>

\* One step of the thread of philosopher p (Philosopher::operator()).
Philosopher(p) ==
    \/ thinking(p)
    \/ aquire_forks(p)
    \/ wait_until_available(p)
    \/ wait_for_returns(p)
    \/ try_to_get(p)
    \/ back_off(p)
    \/ eating(p)
    \/ eating_free(p)

-----------------------------------------------------------------------------
\* Monitor

\* The test `!m_log_queue.empty()` at the top of the loop.
empty(queue) == queue = <<>>

\* Monitor::monitor_worker is entered once every thread is created.
monitor_worker ==
    /\ phase = "running"
    /\ started = n
    /\ mon_pc = "off"
    /\ mon_pc' = "check"
    /\ UNCHANGED <<phase, n, number, starvation, started, m_is_available, pc, m_state,
                   holds, m_log_queue, work_log, m_buffer, cout, observed,
                   undelivered, faults, cerr, exit_status>>

\* The loop's test of the queue: a non-empty queue leads to the swap, an empty
\* one to the call of wait_for.  The test reads the vector without
\* m_log_queue_mutex; a read that overlaps an emplace_back sees the queue as it
\* is before or after it, which are the two orders of this step and state(p, s).
monitor_test ==
    /\ phase = "running"
    /\ mon_pc = "check"
    /\ mon_pc' = IF empty(m_log_queue) THEN "wait_for" ELSE "swap"
    /\ UNCHANGED <<phase, n, number, starvation, started, m_is_available, pc, m_state,
                   holds, m_log_queue, work_log, m_buffer, cout, observed,
                   undelivered, faults, cerr, exit_status>>

\* A copy of the queue into work_log that leaves the queue as it is.
monitor_copy ==
    /\ phase = "running"
    /\ mon_pc = "swap"
    /\ work_log' = m_log_queue
    /\ mon_pc' = "render"
    /\ UNCHANGED <<phase, n, number, starvation, started, m_is_available, pc, m_state,
                   holds, m_log_queue, m_buffer, cout, observed, undelivered, faults, cerr, exit_status>>

\* std::swap(work_log, m_log_queue) under m_log_queue_mutex.
monitor_swap ==
    /\ phase = "running"
    /\ mon_pc = "swap"
    /\ work_log' = m_log_queue
    /\ m_log_queue' = work_log
    /\ mon_pc' = "render"
    /\ UNCHANGED <<phase, n, number, starvation, started, m_is_available, pc, m_state,
                   holds, m_buffer, cout, observed, undelivered, faults, cerr, exit_status>>

\* The last event of philosopher p in a batch, or `before` when it has none.
RECURSIVE LastOf(_, _, _)
LastOf(p, log, before) ==
    IF log = <<>> THEN before
    ELSE LastOf(p, Tail(log), IF Head(log)[1] = p THEN Head(log)[2] ELSE before)

\* What is left of the undelivered events once a batch is handed over: the
\* batch is taken off the front, event by event, where it is found there.
RECURSIVE Deliver(_, _)
Deliver(pending, log) ==
    IF log = <<>> \/ pending = <<>> THEN pending
    ELSE IF Head(pending) = Head(log) THEN Deliver(Tail(pending), Tail(log))
    ELSE pending

\* Waterfall_monitor::events_logger(work_log): every event is written into
\* m_buffer and the buffer is printed as one line.
events_logger ==
    /\ phase = "running"
    /\ mon_pc = "render"
    /\ m_buffer' = for_each(m_buffer, work_log)
    /\ cout' = m_buffer'
    /\ observed' = [p \in Phils |-> LastOf(p, work_log, observed[p])]
    /\ undelivered' = Deliver(undelivered, work_log)
    /\ mon_pc' = "clear"
    /\ UNCHANGED <<phase, n, number, starvation, started, m_is_available, pc, m_state,
                   holds, m_log_queue, work_log, faults, cerr, exit_status>>

\* work_log.clear(), and the loop starts over.
work_log_clear ==
    /\ phase = "running"
    /\ mon_pc = "clear"
    /\ work_log' = <<>>
    /\ mon_pc' = "check"
    /\ UNCHANGED <<phase, n, number, starvation, started, m_is_available, pc, m_state,
                   holds, m_log_queue, m_buffer, cout, observed, undelivered,
                   faults, cerr, exit_status>>

\* m_state_logged_event.wait_for starts to wait (on the local event_mutex, with
\* no predicate): a notify_one issued after the test and before this step
\* finds no waiter.
wait_for_blocks ==
    /\ phase = "running"
    /\ mon_pc = "wait_for"
    /\ mon_pc' = "waiting"
    /\ UNCHANGED <<phase, n, number, starvation, started, m_is_available, pc, m_state,
                   holds, m_log_queue, work_log, m_buffer, cout, observed,
                   undelivered, faults, cerr, exit_status>>

\* wait_for returns cv_status::no_timeout without a notification (a spurious
\* wake-up); the notified return is part of state(p, s).
wait_for_no_timeout ==
    /\ phase = "running"
    /\ mon_pc = "waiting"
    /\ mon_pc' = "check"
    /\ UNCHANGED <<phase, n, number, starvation, started, m_is_available, pc, m_state,
                   holds, m_log_queue, work_log, m_buffer, cout, observed,
                   undelivered, faults, cerr, exit_status>>

\* A timeout that is reported while the loop goes on.
wait_for_timeout_goes_on ==
    /\ phase = "running"
    /\ mon_pc = "waiting"
    /\ faults < 2
    /\ mon_pc' = "check"
    /\ faults' = faults + 1
    /\ UNCHANGED <<phase, n, number, starvation, started, m_is_available, pc, m_state,
                   holds, m_log_queue, work_log, m_buffer, cout, observed,
                   undelivered, cerr, exit_status>>

\* wait_for returns cv_status::timeout: throw std::runtime_error("No events
\* for a long time"), which leaves monitor_worker.
wait_for_timeout ==
    /\ phase = "running"
    /\ mon_pc = "waiting"
    /\ mon_pc' = "faulted"
    /\ faults' = faults + 1
    /\ UNCHANGED <<phase, n, number, starvation, started, m_is_available, pc, m_state,
                   holds, m_log_queue, work_log, m_buffer, cout, observed,
                   undelivered, cerr, exit_status>>

\* One step of the thread that runs Monitor::monitor_worker.
Monitor ==
    \/ monitor_worker
    \/ monitor_test
    \/ monitor_swap
    \/ events_logger
    \/ work_log_clear
    \/ wait_for_blocks
    \/ wait_for_no_timeout
    \/ wait_for_timeout

-----------------------------------------------------------------------------
Next ==
    \/ \E k \in 0 .. MaxN : Canteen(k)
    \/ CanteenRun
    \/ thread_creator
    \/ CanteenUnwind
    \/ \E p \in Phils : Philosopher(p)
    \/ Monitor

Spec == Init /\ [][Next]_vars

-----------------------------------------------------------------------------
\* Mutual exclusion of forks

\* C1: in every reachable state every fork is held by at most one philosopher;
\* the two philosophers that share a fork never hold it at the same time.
MutualExclusion ==
    \A f \in Forks : Cardinality(Holders(f)) <= 1

\* A fork is held by one philosopher of a ring of three while its other
\* philosopher is blocked in wait_for on it.
MutualExclusionWitness ==
    /\ n = 3
    /\ \E f \in Forks : Holders(f) # {} /\ Waiters(f) # {}

\* C2: a philosopher that has left aquire_forks, and one that has just set
\* its state to dines and logged it, holds both its left and its right fork.
DiningHoldsBothForks ==
    \A p \in Phils :
        pc[p] \in {"eating", "eaten"} =>
            /\ holds[p] = {"left", "right"}
            /\ ~m_is_available[LeftFork(p)]
            /\ ~m_is_available[RightFork(p)]
            /\ pc[p] = "eaten" => m_state[p] = "dines"

\* A philosopher of a ring of three has logged dines and holds both forks
\* while another philosopher is blocked in wait_for.
DiningHoldsBothForksWitness ==
    /\ n = 3
    /\ \E p \in Phils :
        /\ pc[p] = "eaten"
        /\ m_state[p] = "dines"
        /\ holds[p] = {"left", "right"}
        /\ \E q \in Phils : q # p /\ pc[q] \in {"blocked_left", "blocked_right"}

\* A philosopher is inside wait_for of a fork's condition variable.
Blocked(p) == pc[p] \in {"blocked_left", "blocked_right"}

\* C3: the ring never reaches the state in which every philosopher holds
\* exactly one fork and is blocked waiting for the other; and while the process
\* runs, every started philosopher thread that is not dead can take a step
\* (the queue bound of the model aside).
NoDeadlock ==
    /\ n >= 2 => ~(\A p \in Phils : Cardinality(holds[p]) = 1 /\ Blocked(p))
    /\ (phase = "running" /\ Len(m_log_queue) < MaxQueue) =>
           \A p \in Phils : pc[p] \notin {"off", "dead"} => ENABLED Philosopher(p)

\* Every philosopher of a ring of three holds its left fork and is about to
\* try the right one: the state from which a blocking protocol deadlocks.
NoDeadlockWitness ==
    /\ n = 3
    /\ \A p \in Phils : holds[p] = {"left"} /\ pc[p] = "try_right"

-----------------------------------------------------------------------------
\* Liveness of the philosophers, in a build without PHILOSOPHERS_STARVATION

\* Ring size of the fair specification.
FairN == 2

\* A constructed Canteen of FairN philosophers.
InitFair ==
    /\ phase = "constructed"
    /\ n = FairN
    /\ number = <<FairN>>
    /\ starvation = FALSE
    /\ started = 0
    /\ m_is_available = [f \in 0 .. FairN - 1 |-> TRUE]
    /\ pc = [p \in 0 .. FairN - 1 |-> "off"]
    /\ m_state = [p \in 0 .. FairN - 1 |-> "thinks"]
    /\ holds = [p \in 0 .. FairN - 1 |-> {}]
    /\ m_log_queue = <<>>
    /\ work_log = <<>>
    /\ mon_pc = "off"
    /\ m_buffer = <<>>
    /\ cout = NoLine
    /\ observed = [p \in 0 .. FairN - 1 |-> "none"]
    /\ undelivered = <<>>
    /\ faults = 0
    /\ cerr = {}
    /\ exit_status = "none"

NextFair ==
    \/ CanteenRun
    \/ thread_creator
    \/ CanteenUnwind
    \/ \E p \in Phils : Philosopher(p)
    \/ Monitor

\* Every thread is scheduled again and again.  A philosopher thread of the
\* code always has a next step; in the model the queue bound can disable it
\* for a while, hence strong fairness for the philosophers.
SpecFair ==
    /\ InitFair
    /\ [][NextFair]_vars
    /\ WF_vars(CanteenRun \/ thread_creator \/ CanteenUnwind \/ Monitor)
    /\ \A p \in 0 .. FairN - 1 : SF_vars(Philosopher(p))

-----------------------------------------------------------------------------
\* The events as the renderer sees them

\* The events of philosopher p in a log, in the log's order.
RECURSIVE EventsOf(_, _)
EventsOf(p, log) ==
    IF log = <<>> THEN <<>>
    ELSE IF Head(log)[1] = p THEN <<Head(log)[2]>> \o EventsOf(p, Tail(log))
    ELSE EventsOf(p, Tail(log))

\* The transitions of one philosopher: thinks, hungry, dines, thinks, ... from
\* the first event on, and hungry to dead in a PHILOSOPHERS_STARVATION build.
Follows(a, b) ==
    \/ a \in {"none", "dines"} /\ b = "thinks"
    \/ a = "thinks" /\ b = "hungry"
    \/ a = "hungry" /\ b = "dines"
    \/ a = "hungry" /\ b = "dead" /\ starvation

InCycleOrder(seq) == \A i \in 1 .. Len(seq) - 1 : Follows(seq[i], seq[i + 1])

\* The batch the monitor holds and has not handed to events_logger yet.
BatchInHand == IF mon_pc = "render" THEN work_log ELSE <<>>

\* C5: for every philosopher, the events handed to events_logger so far,
\* followed by those of the batch in hand and those still in m_log_queue, are
\* in the order thinks, hungry, dines, thinks, ... (ending in dead after hungry
\* at most), and the last of them is the philosopher's current m_state.
StateCycleObserved ==
    \A p \in Phils :
        LET coming == EventsOf(p, BatchInHand) \o EventsOf(p, m_log_queue) IN
        /\ InCycleOrder(<<observed[p]>> \o coming)
        /\ coming # <<>> => coming[Len(coming)] = m_state[p]
        /\ (coming = <<>> /\ observed[p] # "none") => observed[p] = m_state[p]

\* The monitor is about to render a batch that holds two events of the same
\* philosopher, after an earlier batch that held an event of it.
StateCycleObservedWitness ==
    /\ mon_pc = "render"
    /\ \E p \in Phils :
        /\ observed[p] = "dines"
        /\ EventsOf(p, work_log) = <<"thinks", "hungry">>

LivenessWatchdog ==
    /\ [](faults <= 1 /\ (mon_pc = "faulted" <=> faults = 1))
    /\ [][mon_pc = "faulted" =>
            UNCHANGED <<mon_pc, faults, work_log, m_buffer, cout, observed>>]_vars

\* The monitor has stopped on the fault and a philosopher has logged an event
\* afterwards, which stays in the queue.
LivenessWatchdogWitness ==
    /\ mon_pc = "faulted"
    /\ faults = 1
    /\ m_log_queue # <<>>
    /\ work_log = <<>>

\* C8: a constructor call with 0 or 1 ends in the configuration error, with
\* no fork, no philosopher and no thread, for ever; a call with 2 or more
\* succeeds with exactly that many forks and philosophers.
InvalidConfigurationRejected ==
    /\ phase = "config_error" <=> number \in {<<0>>, <<1>>}
    /\ phase = "config_error" =>
           /\ n = 0 /\ started = 0
           /\ DOMAIN pc = {} /\ DOMAIN m_is_available = {}
    /\ phase \in {"constructed", "running", "terminated"} =>
           /\ n >= 2 /\ number = <<n>>
           /\ DOMAIN m_is_available = 0 .. n - 1
           /\ DOMAIN pc = 0 .. n - 1
           /\ DOMAIN m_state = 0 .. n - 1

\* The constructor was called with 1 and threw.
InvalidConfigurationRejectedWitness ==
    phase = "config_error" /\ number = <<1>>

-----------------------------------------------------------------------------
\* Waterfall_monitor::events_logger as a function of the buffer and the batch

\* Largest batch handed to events_logger in the rendering specification.
MaxBatch == 3

\* The sequences over S of length at most k.
RECURSIVE SeqsUpTo(_, _)
SeqsUpTo(S, k) ==
    IF k = 0 THEN {<<>>}
    ELSE LET shorter == SeqsUpTo(S, k - 1)
         IN shorter \cup {Append(q, x) : q \in {r \in shorter : Len(r) = k - 1}, x \in S}

\* The monitor of a Canteen of MaxN philosophers holds a batch for
\* events_logger: any batch of at most MaxBatch events of these philosophers,
\* over any buffer of at most MaxN symbols (empty before the first batch).
InitRender ==
    /\ phase = "running"
    /\ n = MaxN
    /\ number = <<MaxN>>
    /\ starvation = FALSE
    /\ started = MaxN
    /\ m_is_available = [f \in 0 .. MaxN - 1 |-> TRUE]
    /\ pc = [p \in 0 .. MaxN - 1 |-> "thinking"]
    /\ m_state = [p \in 0 .. MaxN - 1 |-> "thinks"]
    /\ holds = [p \in 0 .. MaxN - 1 |-> {}]
    /\ m_log_queue = <<>>
    /\ work_log \in SeqsUpTo((0 .. MaxN - 1) \X {"thinks", "hungry", "dines"}, MaxBatch)
    /\ mon_pc = "render"
    /\ m_buffer \in SeqsUpTo({symb("thinks"), symb("hungry"), symb("dines")}, MaxN)
    /\ cout = IF m_buffer = <<>> THEN NoLine ELSE m_buffer
    /\ observed = [p \in 0 .. MaxN - 1 |-> "none"]
    /\ undelivered = work_log
    /\ faults = 0
    /\ cerr = {}
    /\ exit_status = "none"

NextRender == events_logger \/ work_log_clear

SpecRender == InitRender /\ [][NextRender]_vars

\* The agent ids that occur in a batch.
IdsOf(log) == {log[i][1] : i \in 1 .. Len(log)}

\* C9: when events_logger has processed a batch, the buffer holds at the
\* position of every agent of the batch the symbol of that agent's last event
\* in the batch, and every other position holds what it held before: its prior
\* symbol, or the thinks symbol where the buffer did not reach that far.
SnapshotRendering ==
    [][(mon_pc = "render" /\ mon_pc' = "clear") =>
        /\ \A id \in IdsOf(work_log) :
               /\ id + 1 \in DOMAIN m_buffer'
               /\ m_buffer'[id + 1] = symb(LastOf(id, work_log, "none"))
        /\ \A i \in DOMAIN m_buffer' :
               (i - 1) \notin IdsOf(work_log) =>
                   m_buffer'[i] = IF i <= Len(m_buffer) THEN m_buffer[i]
                                  ELSE symb("thinks")
        /\ Len(m_buffer') >= Len(m_buffer)]_vars

\* The batch [(0,hungry), (2,dines), (0,dines)] of three agents has been
\* processed and the buffer reads dines, thinks, dines.
SnapshotRenderingWitness ==
    /\ mon_pc = "clear"
    /\ work_log = << <<0, "hungry">>, <<2, "dines">>, <<0, "dines">> >>
    /\ m_buffer = <<"|", " ", "|">>

-----------------------------------------------------------------------------
\* Width of the snapshot lines

\* The philosophers of which an event has been handed to events_logger.
Rendered == {p \in Phils : observed[p] # "none"}

\* C10, as claimed: every snapshot line printed has one character per
\* philosopher, its length is n.
FixedWidthSnapshot ==
    cout # NoLine => Len(cout) = n

\* C10, amended: every snapshot line printed is the buffer, which reaches from
\* agent 0 to the largest agent id rendered so far: its length is that id plus
\* one, at most n, and it is n only once an event of philosopher n - 1 has been
\* rendered.
SnapshotWidth ==
    cout # NoLine =>
        /\ cout = m_buffer
        /\ Rendered # {}
        /\ \E top \in Rendered :
               /\ \A p \in Rendered : p <= top
               /\ Len(cout) = top + 1
        /\ Len(cout) <= n

\* In a ring of three a line of one character has been printed: the first
\* batch held events of philosopher 0 only.
SnapshotWidthWitness ==
    /\ n = 3
    /\ cout # NoLine
    /\ Len(cout) = 1

-----------------------------------------------------------------------------
\* C11  Exit on the liveness fault

\* C11: once the process has ended after monitor_worker threw "No events for
\* a long time", that text has been written to std::cerr and the exit status
\* is not zero; and from the entry of Canteen::operator() on, the process
\* never ends with the status 0 of main's return 0.
ExitOnLivenessFault ==
    /\ (phase = "terminated" /\ faults > 0) =>
           /\ NoEventsText \in cerr
           /\ exit_status \in {"EXIT_FAILURE", "SIGABRT"}
    /\ phase \in {"running", "terminated"} => exit_status # "0"

-----------------------------------------------------------------------------
\* C12  A fault inside a philosopher's cycle

\* The threads of a constructed ring, any of which can meet an exception.
NextFault ==
    \/ NextFair
    \/ \E p \in Phils : catch_unhandled(p)

SpecFault == InitFair /\ [][NextFault]_vars

\* The step in which the handler of philosopher p writes its line.
Caught(p) == CatchUnhandledText(p) \notin cerr /\ CatchUnhandledText(p) \in cerr'

\* C12, as claimed: the step that catches a fault of a philosopher puts the
\* philosopher at the start of its cycle, the thinking of a new round.
FaultSelfHealing ==
    [][\A p \in Phils : Caught(p) => pc'[p] = "thinking"]_vars

\* C12, amended: a caught fault ends the philosopher's thread.  The philosopher
\* whose line was written has left its loop for good: from then on its m_state
\* and the forks it holds stay as they were and no event of it is appended to
\* m_log_queue, while the other threads go on.
FaultEndsPhilosopher ==
    /\ [](\A p \in Phils : CatchUnhandledText(p) \in cerr <=> pc[p] = "exited")
    /\ [][\A p \in Phils : pc[p] = "exited" =>
              /\ pc'[p] = "exited"
              /\ m_state'[p] = m_state[p]
              /\ holds'[p] = holds[p]
              /\ \/ m_log_queue' = m_log_queue
                 \/ m_log_queue' = <<>>
                 \/ m_log_queue'[Len(m_log_queue')][1] # p]_vars

\* A philosopher has ended while it dined, with both forks, and the monitor
\* has since shown its neighbour as hungry.
FaultEndsPhilosopherWitness ==
    \E p, q \in Phils :
        /\ pc[p] = "exited"
        /\ m_state[p] = "dines"
        /\ holds[p] = {"left", "right"}
        /\ q # p
        /\ m_state[q] = "hungry"
        /\ observed[q] = "hungry"

-----------------------------------------------------------------------------
\* C13  Ring wiring

\* The philosophers that were given fork f, as left or as right fork.
Referencing(f) == {p \in Phils : f \in {LeftFork(p), RightFork(p)}}

\* C13: in every constructed Canteen philosopher i has fork i as its left and
\* fork (i + 1) mod n as its right fork, both forks of the table; the two are
\* distinct, and every fork was given to exactly two philosophers, as the right
\* fork of one and the left fork of the next.
RingWiring ==
    phase \in {"constructed", "running", "terminated"} =>
        /\ n >= 2
        /\ \A p \in Phils :
               /\ LeftFork(p) = p
               /\ RightFork(p) = (IF p = n - 1 THEN 0 ELSE p + 1)
               /\ {LeftFork(p), RightFork(p)} \subseteq Forks
               /\ LeftFork(p) # RightFork(p)
        /\ \A f \in Forks :
               /\ Cardinality(Referencing(f)) = 2
               /\ \E p, q \in Referencing(f) :
                      p # q /\ RightFork(p) = f /\ LeftFork(q) = f

\* A ring of MaxN philosophers is constructed: the right fork of the last
\* philosopher is the left fork of the first.
RingWiringWitness ==
    /\ phase = "constructed"
    /\ n = MaxN
    /\ RightFork(n - 1) = LeftFork(0)

-----------------------------------------------------------------------------
\* C14  Legend of the waterfall output

\* The legend of README.md: the character that stands for each state.
Legend(s) ==
    CASE s = "dines"  -> "|"
      [] s = "hungry" -> "-"
      [] s = "thinks" -> " "
      [] s = "dead"   -> "#"

\* C14: every printed snapshot line shows each philosopher of which an event
\* has been rendered by the character that the legend gives for the state of
\* its last rendered event: '|' for dines, '-' for hungry, ' ' for thinks and
\* '#' for dead (a state that occurs in a starvation build only).
LegendOfSnapshot ==
    \A p \in Rendered :
        /\ p + 1 \in DOMAIN cout
        /\ cout[p + 1] = Legend(observed[p])

-----------------------------------------------------------------------------
\* C15  The watchdog and the queue

\* C15: in the step in which monitor_worker throws "No events for a long
\* time" the queue m_log_queue is empty and no event appended by log_state is
\* left that was not handed to events_logger.
WatchdogOnlyOnSilence ==
    [][(mon_pc = "waiting" /\ mon_pc' = "faulted") =>
           /\ m_log_queue = <<>>
           /\ undelivered = <<>>]_vars

-----------------------------------------------------------------------------
\* C16  No hold-and-wait in aquire_forks

\* Philosopher p is inside Fork::wait_until_available, about to test the flag
\* or inside wait_for.
InWait(p) ==
    pc[p] \in {"wait_left", "blocked_left", "woken_left",
               "wait_right", "blocked_right", "woken_right"}

\* The side opposite to the one held.
Other(side) == IF side = "left" THEN "right" ELSE "left"

\* Philosopher p is at its try_to_get on the fork of the given side.
AtTry(p, side) == pc[p] = (IF side = "left" THEN "try_left" ELSE "try_right")

\* Philosopher p is at the free() of the fork of the given side that follows
\* a failed try_to_get.
AtBackOff(p, side) == pc[p] = (IF side = "left" THEN "free_left" ELSE "free_right")

\* C16: a philosopher inside wait_until_available holds no fork; a hungry
\* philosopher that holds exactly one fork is at the non-blocking try_to_get on
\* the other fork or at the free() of its fork that follows the failed try;
\* the try_to_get leaves it with both forks or at that free(), and the free()
\* leaves it with no fork, waiting for the other one.
NoHoldAndWait ==
    /\ [](\A p \in Phils :
            /\ InWait(p) => holds[p] = {}
            /\ \A side \in {"left", "right"} :
                   (m_state[p] = "hungry" /\ holds[p] = {side}) =>
                       AtTry(p, Other(side)) \/ AtBackOff(p, side))
    /\ [][\A p \in Phils : \A side \in {"left", "right"} :
            /\ (AtTry(p, Other(side)) /\ pc'[p] # pc[p]) =>
                   \/ holds'[p] = {"left", "right"}
                   \/ holds'[p] = {side} /\ AtBackOff(p, side)'
            /\ (AtBackOff(p, side) /\ pc'[p] # pc[p]) =>
                   holds'[p] = {} /\ InWait(p)']_vars

\* A philosopher has failed its try_to_get on the fork that its neighbour
\* holds, and is about to free its own fork.
NoHoldAndWaitWitness ==
    \E p, q \in Phils :
        /\ pc[p] = "free_left"
        /\ holds[p] = {"left"}
        /\ q # p
        /\ RightFork(p) \in {ForkOf(q, side) : side \in holds[q]}

-----------------------------------------------------------------------------
\* The variant of src/unnamed/part_001: a fork is a std::mutex, aquire_forks
\* tries std::try_lock on both forks and waits on the static condition variable
\* m_free_fork_event.  Philosopher::state, Monitor::log_state, the loop of
\* Monitor::monitor_worker and the thread creation of Canteen::operator() read
\* there as in philosophers.cpp and are modelled by the same definitions; DEATH
\* is undefined in that file, so that check_for_death does nothing.

\* Waterfall_monitor::symb of part_001.
part001_symb(s) ==
    CASE s = "thinks" -> " "
      [] s = "hungry" -> "-"
      [] s = "dines"  -> "|"
      [] OTHER -> "?"

\* The lambda log_event of part_001's Waterfall_monitor::events_logger.
part001_log_event(buf, el) ==
    LET grown == IF Len(buf) <= el[1]
                 THEN buf \o Fill(el[1] + 1 - Len(buf), part001_symb("thinks"))
                 ELSE buf
    IN [grown EXCEPT ![el[1] + 1] = part001_symb(el[2])]

\* std::for_each(begin(work_log), end(work_log), log_event) of part_001.
RECURSIVE part001_for_each(_, _)
part001_for_each(buf, log) ==
    IF log = <<>> THEN buf
    ELSE part001_for_each(part001_log_event(buf, Head(log)), Tail(log))

\* Waterfall_monitor::events_logger of part_001.
part001_events_logger ==
    /\ phase = "running"
    /\ mon_pc = "render"
    /\ m_buffer' = part001_for_each(m_buffer, work_log)
    /\ cout' = m_buffer'
    /\ observed' = [p \in Phils |-> LastOf(p, work_log, observed[p])]
    /\ undelivered' = Deliver(undelivered, work_log)
    /\ mon_pc' = "clear"
    /\ UNCHANGED <<phase, n, number, starvation, started, m_is_available, pc, m_state,
                   holds, m_log_queue, work_log, faults, cerr, exit_status>>

\* wait_for returns cv_status::timeout: the loop of monitor_worker is left by
\* break and monitor_worker returns.
part001_wait_for_timeout ==
    /\ phase = "running"
    /\ mon_pc = "waiting"
    /\ mon_pc' = "queue_size"
    /\ UNCHANGED <<phase, n, number, starvation, started, m_is_available, pc, m_state,
                   holds, m_log_queue, work_log, m_buffer, cout, observed,
                   undelivered, faults, cerr, exit_status>>

\* One round of the loop of Canteen::operator() after monitor_worker: the
\* size of the queue is written to std::cerr.  The rounds are not counted: the
\* loop is left after one round or more.
part001_queue_size ==
    /\ phase = "running"
    /\ mon_pc = "queue_size"
    /\ cerr' = cerr \cup {QueueSizeText(Len(m_log_queue))}
    /\ mon_pc' \in {"queue_size", "return"}
    /\ UNCHANGED <<phase, n, number, starvation, started, m_is_available, pc, m_state,
                   holds, m_log_queue, work_log, m_buffer, cout, observed,
                   undelivered, faults, exit_status>>

\* Canteen::operator() returns: its vector of joinable std::thread objects is
\* destroyed, which ends the process by std::terminate.
part001_return ==
    /\ phase = "running"
    /\ mon_pc = "return"
    /\ phase' = "terminated"
    /\ exit_status' = "SIGABRT"
    /\ UNCHANGED <<n, number, starvation, started, m_is_available, pc, m_state, holds,
                   m_log_queue, work_log, mon_pc, m_buffer, cout, observed,
                   undelivered, faults, cerr>>

\* The thread of part_001 that runs Canteen::operator() after the threads are
\* created.
part001_Monitor ==
    \/ monitor_worker
    \/ monitor_test
    \/ monitor_swap
    \/ part001_events_logger
    \/ work_log_clear
    \/ wait_for_blocks
    \/ wait_for_no_timeout
    \/ part001_wait_for_timeout
    \/ part001_queue_size
    \/ part001_return


\* Philosopher::thinking of part_001: state(thinks), then the sleep.
part001_thinking(p) ==
    /\ Running(p)
    /\ pc[p] = "thinking"
    /\ state(p, "thinks")
    /\ pc' = [pc EXCEPT ![p] = "aquire"]
    /\ UNCHANGED <<phase, n, number, starvation, started, ringVars, monVars>>

\* Philosopher::aquire_forks of part_001, its first statement: state(hungry).
part001_aquire_forks(p) ==
    /\ Running(p)
    /\ pc[p] = "aquire"
    /\ state(p, "hungry")
    /\ pc' = [pc EXCEPT ![p] = "try_lock"]
    /\ UNCHANGED <<phase, n, number, starvation, started, ringVars, monVars>>

\* std::mutex::unlock of the fork of that side by philosopher p.
unlock(p, side, next) ==
    /\ m_is_available' = [m_is_available EXCEPT ![ForkOf(p, side)] = TRUE]
    /\ holds' = [holds EXCEPT ![p] = @ \ {side}]
    /\ pc' = [pc EXCEPT ![p] = next]

\* std::try_lock(*m_p_left_fork, *m_p_right_fork): try_lock of the left fork;
\* with it, try_lock of the right fork; when that fails, the left fork is
\* unlocked again and the index of the right fork is returned.  These are
\* three operations on the two mutexes, and other threads run between them.
\* After a failure check_for_death does nothing and the loop goes to wait.
part001_try_lock(p) ==
    /\ Running(p)
    /\ \/ /\ pc[p] = "try_lock"
          /\ claim(p, "left", "try_lock_right", "wait")
       \/ /\ pc[p] = "try_lock_right"
          /\ claim(p, "right", "eating", "try_lock_failed")
       \/ /\ pc[p] = "try_lock_failed"
          /\ unlock(p, "left", "wait")
    /\ UNCHANGED <<phase, n, number, starvation, started, m_state, m_log_queue,
                   undelivered, mon_pc, monVars>>

\* m_free_fork_event.wait(m_event_wait_lock) starts to wait.  The wait has no
\* predicate and m_event_wait_lock locks a mutex of this philosopher alone, so
\* that nothing orders this step after the notify_all of a neighbour: a
\* notify_all issued before it finds no waiter here.
part001_wait(p) ==
    /\ Running(p)
    /\ pc[p] = "wait"
    /\ pc' = [pc EXCEPT ![p] = "blocked_free_fork_event"]
    /\ UNCHANGED <<phase, n, number, starvation, started, ringVars, m_state, m_log_queue,
                   undelivered, mon_pc, monVars>>

\* m_free_fork_event.wait returns, after a notify_all (woken) or spuriously
\* (blocked), and the loop tries std::try_lock again.
part001_wait_returns(p) ==
    /\ Running(p)
    /\ pc[p] \in {"blocked_free_fork_event", "woken_free_fork_event"}
    /\ pc' = [pc EXCEPT ![p] = "try_lock"]
    /\ UNCHANGED <<phase, n, number, starvation, started, ringVars, m_state, m_log_queue,
                   undelivered, mon_pc, monVars>>

\* Philosopher::eating of part_001: state(dines), then the sleep.
part001_eating(p) ==
    /\ Running(p)
    /\ pc[p] = "eating"
    /\ state(p, "dines")
    /\ pc' = [pc EXCEPT ![p] = "eaten"]
    /\ UNCHANGED <<phase, n, number, starvation, started, ringVars, monVars>>

\* Philosopher::eating of part_001 after the sleep: m_p_left_fork->unlock(),
\* then m_p_right_fork->unlock().
part001_eating_unlock(p) ==
    /\ Running(p)
    /\ \/ /\ pc[p] = "eaten"
          /\ unlock(p, "left", "eaten_left")
       \/ /\ pc[p] = "eaten_left"
          /\ unlock(p, "right", "notify_all")
    /\ UNCHANGED <<phase, n, number, starvation, started, m_state, m_log_queue,
                   undelivered, mon_pc, monVars>>

\* m_free_fork_event.notify_all() at the end of eating: every philosopher that
\* is waiting is woken; then the loop of operator() starts over.
part001_notify_all(p) ==
    /\ Running(p)
    /\ pc[p] = "notify_all"
    /\ pc' = [q \in Phils |->
                 IF q = p THEN "thinking"
                 ELSE IF pc[q] = "blocked_free_fork_event" THEN "woken_free_fork_event"
                 ELSE pc[q]]
    /\ UNCHANGED <<phase, n, number, starvation, started, ringVars, m_state, m_log_queue,
                   undelivered, mon_pc, monVars>>

\* One step of the thread of philosopher p of part_001.
part001_Philosopher(p) ==
    \/ part001_thinking(p)
    \/ part001_aquire_forks(p)
    \/ part001_try_lock(p)
    \/ part001_wait(p)
    \/ part001_wait_returns(p)
    \/ part001_eating(p)
    \/ part001_eating_unlock(p)
    \/ part001_notify_all(p)

\* A constructed Canteen of part_001.
part001_Init ==
    /\ phase = "constructed"
    /\ n \in 2 .. MaxN
    /\ number = <<n>>
    /\ starvation = FALSE
    /\ started = 0
    /\ m_is_available = [f \in 0 .. n - 1 |-> TRUE]
    /\ pc = [p \in 0 .. n - 1 |-> "off"]
    /\ m_state = [p \in 0 .. n - 1 |-> "thinks"]
    /\ holds = [p \in 0 .. n - 1 |-> {}]
    /\ m_log_queue = <<>>
    /\ work_log = <<>>
    /\ mon_pc = "off"
    /\ m_buffer = <<>>
    /\ cout = NoLine
    /\ observed = [p \in 0 .. n - 1 |-> "none"]
    /\ undelivered = <<>>
    /\ faults = 0
    /\ cerr = {}
    /\ exit_status = "none"

part001_Next ==
    \/ CanteenRun
    \/ thread_creator
    \/ \E p \in Phils : part001_Philosopher(p)
    \/ part001_Monitor

part001_Spec == part001_Init /\ [][part001_Next]_vars

\* C17: the philosophers of part_001 are never all inside
\* m_free_fork_event.wait at once, with none of them dining and so none that
\* would call notify_all.
TryLockWaitDeadlockFree ==
    ~(\A p \in Phils :
          /\ pc[p] = "blocked_free_fork_event"
          /\ m_state[p] # "dines"
          /\ holds[p] = {})


-----------------------------------------------------------------------------
\* The variant of src/main.cpp: a fork is a std::mutex; std::try_lock on both
\* forks is made under the static mutex Philosopher::m_mutex, the wait is
\* m_cv.wait on that mutex, and Philosopher::state notifies all waiters under
\* the same mutex.  The threads are created as in philosophers.cpp.

\* Philosopher::m_mutex is held by a philosopher that is between its
\* unique_lock (or the return of m_cv.wait) and the end of std::try_lock.
m_mutex_locked == \E q \in Phils : pc[q] \in {"locked", "locked_right", "locked_failed"}

\* A state() that does not notify the waiting philosophers.
main_state_silent(p, s, next) ==
    /\ ~m_mutex_locked
    /\ Len(m_log_queue) < MaxQueue
    /\ m_state' = [m_state EXCEPT ![p] = s]
    /\ m_log_queue' = emplace_back(m_log_queue, <<p, s>>)
    /\ undelivered' = Append(undelivered, <<p, s>>)
    /\ pc' = [pc EXCEPT ![p] = next]

\* Philosopher::state(_state) of main.cpp, all of it under m_mutex: m_state
\* is written, Canteen::log_state appends the event under m_log_queue_mutex
\* and notifies the log worker, and m_cv.notify_all() wakes every philosopher
\* inside m_cv.wait.  The guard on the length bounds the queue.
main_state(p, s, next) ==
    /\ ~m_mutex_locked
    /\ Len(m_log_queue) < MaxQueue
    /\ m_state' = [m_state EXCEPT ![p] = s]
    /\ m_log_queue' = emplace_back(m_log_queue, <<p, s>>)
    /\ undelivered' = Append(undelivered, <<p, s>>)
    /\ pc' = [q \in Phils |->
                 IF q = p THEN next
                 ELSE IF pc[q] = "blocked_m_cv" THEN "woken_m_cv"
                 ELSE pc[q]]

\* Philosopher::operator() of main.cpp: state(thinks) and the sleep;
\* state(hungry); state(dines) and the sleep.
main_operator_state(p) ==
    /\ Running(p)
    /\ \/ pc[p] = "thinking" /\ main_state(p, "thinks", "hungry")
       \/ pc[p] = "hungry" /\ main_state(p, "hungry", "lock")
       \/ pc[p] = "eating" /\ main_state(p, "dines", "eaten")
    /\ UNCHANGED <<phase, n, number, starvation, started, ringVars, mon_pc, monVars>>

\* std::unique_lock locker(m_mutex) before the loop, and the return of
\* m_cv.wait(locker), after notify_all (woken) or spuriously (blocked): both
\* take m_mutex.
main_lock(p) ==
    /\ Running(p)
    /\ pc[p] \in {"lock", "blocked_m_cv", "woken_m_cv"}
    /\ ~m_mutex_locked
    /\ pc' = [pc EXCEPT ![p] = "locked"]
    /\ UNCHANGED <<phase, n, number, starvation, started, ringVars, m_state, m_log_queue,
                   undelivered, mon_pc, monVars>>

\* std::try_lock(*m_p_left, *m_p_right) under m_mutex, in its three mutex
\* operations.  With both forks the block is left and m_mutex released; after
\* a failure m_cv.wait(locker) releases m_mutex and waits, in one step.
main_try_lock(p) ==
    /\ Running(p)
    /\ \/ /\ pc[p] = "locked"
          /\ claim(p, "left", "locked_right", "blocked_m_cv")
       \/ /\ pc[p] = "locked_right"
          /\ claim(p, "right", "eating", "locked_failed")
       \/ /\ pc[p] = "locked_failed"
          /\ unlock(p, "left", "blocked_m_cv")
    /\ UNCHANGED <<phase, n, number, starvation, started, m_state, m_log_queue,
                   undelivered, mon_pc, monVars>>

\* m_p_left->unlock(), then m_p_right->unlock(), outside m_mutex; then the
\* loop of operator() starts over.
main_unlock(p) ==
    /\ Running(p)
    /\ \/ /\ pc[p] = "eaten"
          /\ unlock(p, "left", "eaten_left")
       \/ /\ pc[p] = "eaten_left"
          /\ unlock(p, "right", "thinking")
    /\ UNCHANGED <<phase, n, number, starvation, started, m_state, m_log_queue,
                   undelivered, mon_pc, monVars>>

\* One step of the thread of philosopher p of main.cpp.
main_Philosopher(p) ==
    \/ main_operator_state(p)
    \/ main_lock(p)
    \/ main_try_lock(p)
    \/ main_unlock(p)

\* Canteen_waterfall::symb of main.cpp.
main_symb(s) ==
    CASE s = "thinks" -> " "
      [] s = "hungry" -> "*"
      [] s = "dines"  -> "|"
      [] OTHER -> "?"

\* The loop of Canteen_waterfall::monitor: m_buffer[el.first] = symb(el.second).
RECURSIVE main_monitor_loop(_, _)
main_monitor_loop(buf, log) ==
    IF log = <<>> THEN buf
    ELSE main_monitor_loop([buf EXCEPT ![Head(log)[1] + 1] = main_symb(Head(log)[2])],
                           Tail(log))

\* Canteen::log_worker is entered once every thread is created.
main_log_worker ==
    /\ phase = "running"
    /\ started = n
    /\ mon_pc = "off"
    /\ mon_pc' = "log_worker"
    /\ UNCHANGED <<phase, n, number, starvation, started, m_is_available, pc, m_state,
                   holds, m_log_queue, work_log, m_buffer, cout, observed,
                   undelivered, faults, cerr, exit_status>>

\* Canteen::log_worker under m_log_queue_mutex: m_cv.wait while the queue is
\* empty, then std::swap(work_log, m_log_queue).
main_swap ==
    /\ phase = "running"
    /\ mon_pc = "log_worker"
    /\ ~empty(m_log_queue)
    /\ work_log' = m_log_queue
    /\ m_log_queue' = work_log
    /\ mon_pc' = "monitor"
    /\ UNCHANGED <<phase, n, number, starvation, started, m_is_available, pc, m_state,
                   holds, m_buffer, cout, observed, undelivered, faults, cerr, exit_status>>

\* Canteen_waterfall::monitor(work_log): the events are written into m_buffer
\* and the buffer is printed.
main_monitor ==
    /\ phase = "running"
    /\ mon_pc = "monitor"
    /\ m_buffer' = main_monitor_loop(m_buffer, work_log)
    /\ cout' = m_buffer'
    /\ observed' = [p \in Phils |-> LastOf(p, work_log, observed[p])]
    /\ undelivered' = Deliver(undelivered, work_log)
    /\ mon_pc' = "clear"
    /\ UNCHANGED <<phase, n, number, starvation, started, m_is_available, pc, m_state,
                   holds, m_log_queue, work_log, faults, cerr, exit_status>>

\* work_log.clear() of Canteen::log_worker.
main_clear ==
    /\ phase = "running"
    /\ mon_pc = "clear"
    /\ work_log' = <<>>
    /\ mon_pc' = "log_worker"
    /\ UNCHANGED <<phase, n, number, starvation, started, m_is_available, pc, m_state,
                   holds, m_log_queue, m_buffer, cout, observed, undelivered,
                   faults, cerr, exit_status>>

\* Canteen_waterfall(n) of main.cpp: m_buffer holds n thinks symbols.
main_Init ==
    /\ phase = "constructed"
    /\ n \in 2 .. MaxN
    /\ number = <<n>>
    /\ starvation = FALSE
    /\ started = 0
    /\ m_is_available = [f \in 0 .. n - 1 |-> TRUE]
    /\ pc = [p \in 0 .. n - 1 |-> "off"]
    /\ m_state = [p \in 0 .. n - 1 |-> "thinks"]
    /\ holds = [p \in 0 .. n - 1 |-> {}]
    /\ m_log_queue = <<>>
    /\ work_log = <<>>
    /\ mon_pc = "off"
    /\ m_buffer = Fill(n, main_symb("thinks"))
    /\ cout = NoLine
    /\ observed = [p \in 0 .. n - 1 |-> "none"]
    /\ undelivered = <<>>
    /\ faults = 0
    /\ cerr = {}
    /\ exit_status = "none"

main_Next ==
    \/ CanteenRun
    \/ thread_creator
    \/ \E p \in Phils : main_Philosopher(p)
    \/ main_log_worker
    \/ main_swap
    \/ main_monitor
    \/ main_clear

main_Spec == main_Init /\ [][main_Next]_vars

\* The two philosophers that share a fork with philosopher p.
Neighbours(p) == {q \in Phils : q # p /\ {LeftFork(q), RightFork(q)} \cap {LeftFork(p), RightFork(p)} # {}}

\* C18: the philosophers of main.cpp are never all inside m_cv.wait at once;
\* and a philosopher that is inside m_cv.wait and was not notified has a
\* neighbour that took its forks and has not yet called state(thinks), whose
\* notify_all comes after the forks are unlocked.
SerialisedNoLostWakeup ==
    /\ ~(\A p \in Phils : pc[p] = "blocked_m_cv")
    /\ \A p \in Phils :
           pc[p] = "blocked_m_cv" =>
               \E q \in Neighbours(p) : pc[q] \in {"eating", "eaten", "eaten_left", "thinking"}

\* A philosopher was woken by the state(thinks) of the neighbour that had
\* blocked it, and finds every fork unlocked.
SerialisedNoLostWakeupWitness ==
    \E p \in Phils : \E q \in Neighbours(p) :
        /\ pc[p] = "woken_m_cv"
        /\ pc[q] = "hungry"
        /\ m_state[q] = "thinks"
        /\ \A f \in Forks : m_is_available[f]

-----------------------------------------------------------------------------
\* C19  The availability flag

\* Philosopher p is at one of the calls of Fork::free: in the back-off of
\* aquire_forks or at the end of eating.
AtFree(p) == pc[p] \in {"free_left", "free_right", "eaten", "eaten_right"}

\* C19: m_is_available of a fork is true exactly when no philosopher holds the
\* fork; the flag goes from true to false only in a wait_until_available or a
\* try_to_get of the philosopher that holds the fork from then on, and from
\* false to true only in a free() by the philosopher that held it.
FlagConsistentWithHolding ==
    /\ [](\A f \in Forks : m_is_available[f] <=> Holders(f) = {})
    /\ [][phase = "running" =>
            \A f \in Forks :
                /\ (m_is_available[f] /\ ~m_is_available'[f]) =>
                       \E p \in Phils : \E side \in {"left", "right"} :
                           /\ ForkOf(p, side) = f
                           /\ side \notin holds[p] /\ side \in holds'[p]
                           /\ InWait(p) \/ AtTry(p, side)
                /\ (~m_is_available[f] /\ m_is_available'[f]) =>
                       \E p \in Phils : \E side \in {"left", "right"} :
                           /\ ForkOf(p, side) = f
                           /\ side \in holds[p] /\ side \notin holds'[p]
                           /\ AtFree(p)]_vars

\* A philosopher that has dined has freed its right fork, whose flag is true
\* again, and still holds its left fork, whose flag is false.
FlagConsistentWithHoldingWitness ==
    \E p \in Phils :
        /\ pc[p] = "eaten_right"
        /\ m_is_available[RightFork(p)]
        /\ ~m_is_available[LeftFork(p)]
        /\ holds[p] = {"left"}

-----------------------------------------------------------------------------
\* C20  Release before thinking

\* The step in which philosopher p emits its thinks event after a meal.
EmitsThinks(p) == m_state[p] = "dines" /\ m_state'[p] = "thinks"

\* C20: a philosopher whose m_state is thinks holds neither of its forks; in
\* particular the forks of a meal are both freed before the thinks event that
\* follows the meal is emitted.
ReleaseBeforeThinking ==
    /\ [](\A p \in Phils : m_state[p] = "thinks" => holds[p] = {})
    /\ [][\A p \in Phils : EmitsThinks(p) => holds[p] = {} /\ holds'[p] = {}]_vars

\* A philosopher has dined, which the monitor has shown, and has emitted its
\* next thinks event with no fork in hand.
ReleaseBeforeThinkingWitness ==
    \E p \in Phils :
        /\ m_state[p] = "thinks"
        /\ pc[p] = "aquire"
        /\ observed[p] = "dines"
        /\ holds[p] = {}

-----------------------------------------------------------------------------
\* C21  Release only by the holder

\* C21: every call of Fork::free, in the back-off of aquire_forks and at the
\* end of eating, is made on a fork that the calling philosopher holds, alone,
\* and whose flag says held; the call releases that fork and no other.
ReleaseByHolder ==
    [][\A p \in Phils :
          (AtFree(p) /\ pc'[p] # pc[p]) =>
              \E side \in holds[p] :
                  LET f == ForkOf(p, side) IN
                  /\ Holders(f) = {p}
                  /\ ~m_is_available[f]
                  /\ m_is_available' = [m_is_available EXCEPT ![f] = TRUE]
                  /\ holds' = [holds EXCEPT ![p] = @ \ {side}]]_vars

\* A philosopher has freed its left fork in the back-off and is about to wait
\* for its right fork, which its neighbour holds.
ReleaseByHolderWitness ==
    \E p \in Phils :
        /\ pc[p] = "wait_right"
        /\ holds[p] = {}
        /\ m_is_available[LeftFork(p)]
        /\ ~m_is_available[RightFork(p)]

-----------------------------------------------------------------------------
\* C22  Waiters of a fork

\* The philosophers inside wait_for of fork f, notified or not.
InsideWaitFor(f) ==
    {q \in Phils : \/ pc[q] \in {"blocked_left", "woken_left"} /\ LeftFork(q) = f
                   \/ pc[q] \in {"blocked_right", "woken_right"} /\ RightFork(q) = f}

\* C22: at most one philosopher is inside wait_for of a given fork, so that
\* the notify_one of Fork::free wakes every thread that waits for the fork:
\* after a free() no philosopher is left waiting on that fork without having
\* been notified.
OneWaiterPerFork ==
    /\ [](\A f \in Forks : Cardinality(InsideWaitFor(f)) <= 1)
    /\ [][\A f \in Forks :
            (~m_is_available[f] /\ m_is_available'[f]) => Waiters(f)' = {}]_vars

\* A fork was freed while its other philosopher waited for it: the waiter is
\* notified and the fork available.
OneWaiterPerForkWitness ==
    \E p \in Phils :
        /\ pc[p] = "woken_left"
        /\ m_is_available[LeftFork(p)]
        /\ InsideWaitFor(LeftFork(p)) = {p}

-----------------------------------------------------------------------------
\* C23  Neighbours observed dining

\* C23: two philosophers that share a fork are never both in state dines,
\* neither in their m_state fields nor in the states last delivered to the
\* renderer.
NeighboursNeverDineTogether ==
    \A p \in Phils : \A q \in Neighbours(p) :
        /\ ~(m_state[p] = "dines" /\ m_state[q] = "dines")
        /\ ~(observed[p] = "dines" /\ observed[q] = "dines")

-----------------------------------------------------------------------------
\* C24  Global progress

\* C24, as claimed: under fair scheduling of every thread, whenever some
\* philosopher is hungry, later some philosopher holds both forks and has
\* emitted dines (runs that the monitor's watchdog ends are left aside).
GlobalProgress ==
    \/ <>(phase = "terminated")
    \/ (\E p \in Phils : m_state[p] = "hungry")
           ~> (\E p \in Phils : pc[p] = "eaten" /\ m_state[p] = "dines")

-----------------------------------------------------------------------------
\* C25  Death of a philosopher (PHILOSOPHERS_STARVATION)

\* The last event of m_log_queue is an event of philosopher p that was not in
\* the queue before the step.
Emits(p) ==
    /\ Len(m_log_queue') = Len(m_log_queue) + 1
    /\ m_log_queue'[Len(m_log_queue')][1] = p

\* C25: a philosopher enters dead only from hungry, inside aquire_forks with
\* the starvation watchdog compiled in; once dead it stays dead, emits no
\* further event and acquires no fork.
DeadIsTerminal ==
    [][\A p \in Phils :
          /\ (m_state[p] # "dead" /\ m_state'[p] = "dead") =>
                 /\ starvation
                 /\ m_state[p] = "hungry"
                 /\ pc[p] \in {"blocked_left", "woken_left", "blocked_right", "woken_right"}
                 /\ Emits(p)
          /\ m_state[p] = "dead" =>
                 /\ m_state'[p] = "dead"
                 /\ pc'[p] = pc[p]
                 /\ holds'[p] = holds[p]
                 /\ ~Emits(p)]_vars

\* A dead philosopher whose death was rendered, while a neighbour emitted an
\* event after it.
DeadIsTerminalWitness ==
    \E p \in Phils :
        /\ pc[p] = "dead"
        /\ m_state[p] = "dead"
        /\ observed[p] = "dead"
        /\ \E q \in Phils \ {p} : m_log_queue # <<>> /\ m_log_queue[1][1] = q

-----------------------------------------------------------------------------
\* C26  A dead philosopher holds no fork

\* C26: a philosopher holds neither of its forks at the moment it enters dead
\* and in every later state, and none of its forks is left marked as held
\* without a live holder; the neighbours can go on taking both forks.
DeadHoldsNothing ==
    \A p \in Phils :
        m_state[p] = "dead" =>
            /\ holds[p] = {}
            /\ \A f \in {LeftFork(p), RightFork(p)} :
                   /\ p \notin Holders(f)
                   /\ ~m_is_available[f] =>
                          \E q \in Holders(f) : m_state[q] # "dead"

\* A neighbour of a dead philosopher dines with both forks, one of them shared
\* with the dead philosopher.
DeadHoldsNothingWitness ==
    \E p \in Phils : \E q \in Neighbours(p) :
        /\ m_state[p] = "dead"
        /\ pc[q] = "eaten"
        /\ m_state[q] = "dines"
        /\ holds[q] = {"left", "right"}

-----------------------------------------------------------------------------
\* C27  Rendering outside the queue lock

\* Philosopher p is about to call state(), hence Monitor::log_state.
AtLogState(p) == pc[p] \in {"thinking", "aquire", "eating"}

\* C27: m_log_queue_mutex is not held while events_logger runs.  While the
\* monitor is between the swap and the end of events_logger, a philosopher that
\* calls log_state is not blocked (the queue bound of the model aside); its
\* event is appended to m_log_queue, and the batch being rendered, the buffer
\* and the printed line are left alone.  events_logger itself does not touch
\* m_log_queue.
RenderOutsideLock ==
    /\ []((phase = "running" /\ mon_pc = "render" /\ Len(m_log_queue) < MaxQueue) =>
              \A p \in Phils : AtLogState(p) => ENABLED Philosopher(p))
    /\ [][(mon_pc = "render" /\ mon_pc' = "render") =>
              \A p \in Phils :
                  Emits(p) => /\ m_log_queue'[Len(m_log_queue')][2] = m_state'[p]
                              /\ SubSeq(m_log_queue', 1, Len(m_log_queue)) = m_log_queue
                              /\ work_log' = work_log
                              /\ m_buffer' = m_buffer
                              /\ cout' = cout]_vars
    /\ [][(mon_pc = "render" /\ mon_pc' # "render") =>
              /\ mon_pc' = "clear"
              /\ m_log_queue' = m_log_queue]_vars

\* An event was appended to m_log_queue after the swap and before the batch
\* taken by the swap was rendered.
RenderOutsideLockWitness ==
    /\ mon_pc = "render"
    /\ work_log # <<>>
    /\ m_log_queue # <<>>

-----------------------------------------------------------------------------
\* C28  Fork::try_to_get

\* C28: try_to_get is all-or-nothing.  Called on a fork that is available it
\* marks the fork held by the caller and returns true; called on a fork that is
\* held it returns false and leaves every flag and every holder as they are.
\* In both cases the caller goes on, it never waits inside try_to_get; no other
\* fork and no other philosopher is touched.
TryToGetAllOrNothing ==
    [][\A p \in Phils : \A side \in {"left", "right"} :
          (AtTry(p, side) /\ pc'[p] # pc[p]) =>
              LET f == ForkOf(p, side) IN
              /\ IF m_is_available[f]
                 THEN /\ m_is_available' = [m_is_available EXCEPT ![f] = FALSE]
                      /\ holds' = [holds EXCEPT ![p] = @ \cup {side}]
                      /\ pc'[p] = "eating"
                 ELSE /\ m_is_available' = m_is_available
                      /\ holds' = holds
                      /\ AtBackOff(p, Other(side))'
              /\ ~Blocked(p)'
              /\ \A q \in Phils \ {p} : pc'[q] = pc[q]]_vars

\* One philosopher's try_to_get has failed on the fork that its neighbour
\* holds, and the neighbour's try_to_get has given it both forks.
TryToGetAllOrNothingWitness ==
    \E p \in Phils : \E q \in Neighbours(p) :
        /\ pc[p] = "free_left"
        /\ holds[p] = {"left"}
        /\ Holders(RightFork(p)) = {q}
        /\ pc[q] = "eating"
        /\ holds[q] = {"left", "right"}

=============================================================================
